---------------------------- MODULE Spec2Model ----------------------------
(***************************************************************************)
(* The lab container orchestrator of studyhub-backend                      *)
(* (src/docker_lab_manager.py, class DockerLabManager) as a state machine. *)
(*                                                                         *)
(* The container runtime (the Docker engine) is the registry: a container  *)
(* is a record of its labels and its status.                                *)
(* Time is counted in minutes and advances in steps of TickMinutes.        *)
(* Every public call of the manager is one atomic action (calls are        *)
(* serialized); the value the call returns is kept in `last` until the     *)
(* next step.  Runtime calls can fail: the daemon can be down (every call  *)
(* raises), and with the daemon up a container's kill() or remove() can    *)
(* raise, which is what the handlers' per-container try/except is for.     *)
(*                                                                         *)
(* Further specifications follow the same runtime from other sides:         *)
(* PortSpec is the port allocator alone, StepSpec is Kill and the expiry    *)
(* sweep with one runtime call per step, RaceSpec is concurrent Spawn calls *)
(* step by step, ReaperSpec is the background thread on a finer clock, and  *)
(* VMSpec and LabSpec are the                                               *)
(* two other managers of the repository (src/vm_manager.py,                *)
(* src/lab_manager.py).  The variables a specification does not use keep    *)
(* their initial values.                                                    *)
(***************************************************************************)
EXTENDS Integers, Sequences, FiniteSets, TLC

----------------------------------------------------------------------------
(* Bounds of the model *)

MaxOwner == 2

MaxId == 2

MaxForeign == 1

TickMinutes == 60

MaxTime == 120

ShortTimeout == 30
\* Labs a VMManager instance can belong to.
MaxLab == 2
\* Instances VMManager creates in one behaviour.
MaxInstance == 2
\* Latest expiry an extension by additional_minutes may reach.
MaxExpiry == 180
\* Spawn calls in progress at the same time.
MaxProc == 2
\* Minutes that pass while Spawn calls are in progress.
MaxClock == 2

----------------------------------------------------------------------------
(* Program constants *)

PORT_RANGE_START == 20000

PORT_RANGE_END == 30000

DEFAULT_TIMEOUT_MINUTES == 120

max_age_minutes == 60

\* extend_lab_timeout's default for additional_minutes.
additional_minutes == 60

\* VMManager.MAX_TIMEOUT, the maximum total lifetime of an instance (24 h).
MAX_TIMEOUT == 1440

\* VMManager.DEFAULT_TIMEOUT, in minutes.
DEFAULT_TIMEOUT == 60

fallback_image == "nginx:alpine"

LabImage == "vulnlab/sqli-basic:v1"

----------------------------------------------------------------------------
(* Value sets *)

Owners == 1..MaxOwner

Ids == 1..MaxId

Images == {fallback_image, LabImage}

Timeouts == {ShortTimeout, DEFAULT_TIMEOUT_MINUTES}

\* labels.get(...) of a label the container does not carry
NoLabel == -1

\* no container id / no port in a result
NoId == 0

NoPort == 0

\* The host ports the model tells apart: the two ends of the configured
\* range and the last port of the linear scan.  Every other port of the
\* range is taken to be held by some other process or container.
ProbePorts == {PORT_RANGE_START, PORT_RANGE_END - 1, PORT_RANGE_END}

VARIABLES
    reachable,         \* the Docker daemon answers (client.ping() succeeds)
    docker_available,  \* self._docker_available
    cleanup_threads,   \* number of background cleanup threads started
    containers,        \* the runtime: container id -> labels and status
    nextId,            \* the id the runtime gives the next container
    foreign,           \* number of containers other tools have created
    now,               \* datetime.utcnow(), in minutes
    last,              \* the call that has just returned, with its result
    free_ports,        \* host ports on which a bind succeeds (allocator runs)
    alloc,             \* the last _find_free_port call: its draw and result
    docker_cli,        \* VMManager.docker_available (docker --version ran)
    active_instances,  \* VMManager.active_instances: instance id -> record
    instance_seq,      \* number of instance ids VMManager has given out
    lab_client,        \* LabManager.client is set (not None)
    active_labs,       \* LabManager.active_labs: user id -> lab info
    killer,            \* a kill_user_containers call in progress
    sweeper,           \* a cleanup_expired_containers call in progress
    spawners           \* the spawn_lab_container calls in progress

\* The variables of the port allocator taken alone, of VMManager, of
\* LabManager and of the calls taken step by step.
portVars == <<free_ports, alloc>>

vmVars == <<docker_cli, active_instances, instance_seq>>

labVars == <<lab_client, active_labs>>

stepVars == <<killer, sweeper, spawners>>

otherVars == <<portVars, vmVars, labVars, stepVars>>

vars == <<reachable, docker_available, cleanup_threads, containers, nextId,
          foreign, now, last, otherVars>>

----------------------------------------------------------------------------
(* Results.  One record shape for every call: removed/count are Kill's     *)
(* containers/killed_count and a sweep's containers/cleaned; created,      *)
(* launches (the images handed to containers.run, in order), missing (the  *)
(* images whose run raised ImageNotFound) and depth (the recursion depth   *)
(* reached) observe what a Spawn did; pre is the runtime as a sweep found  *)
(* it.                                                                     *)

NoCall ==
    [op |-> "none", user_id |-> NoId, success |-> TRUE, simulated |-> FALSE,
     error_code |-> "", container_id |-> NoId, port |-> NoPort,
     expires_at |-> NoLabel, removed |-> {}, count |-> 0, errors |-> {},
     created |-> {}, launches |-> <<>>, missing |-> {}, depth |-> 0,
     pre |-> <<>>, new_expires_at |-> NoLabel]

Result(op, u) == [NoCall EXCEPT !.op = op, !.user_id = u]

----------------------------------------------------------------------------
(* The runtime *)

Running(cs) == {c \in DOMAIN cs : cs[c].status = "running"}

OfUser(cs, u) == {c \in DOMAIN cs : cs[c].user_id = u}

Max(S) == CHOOSE x \in S : \A y \in S : y <= x

Min(S) == CHOOSE x \in S : \A y \in S : x <= y

\* The loop body shared by Kill and both sweeps: kill() a running container,
\* then remove(force=True); an exception in either ends the iteration for
\* that container and is collected.  KF, RF: the containers whose kill(),
\* remove() raises.
ForceRemoveEach(cs, targets, KF, RF) ==
    LET killErr == {c \in targets : cs[c].status = "running" /\ c \in KF}
        remErr  == {c \in targets \ killErr : c \in RF}
        gone    == targets \ (killErr \cup remErr)
    IN  [cs      |-> [c \in DOMAIN cs \ gone |->
                        IF c \in remErr THEN [cs[c] EXCEPT !.status = "exited"]
                        ELSE cs[c]],
         removed |-> gone,
         errors  |-> killErr \cup remErr]

----------------------------------------------------------------------------
(* Port allocation *)

\* free: the ports of ProbePorts on which a bind succeeds when probed.
is_port_available(p, free) == p \in free

\* rp: the port the random probes drew (NoPort: none of the 100 draws hit a
\* free port).  A free draw is returned; otherwise the linear scan of
\* range(PORT_RANGE_START, PORT_RANGE_END) returns its first free port.
\* NoPort stands for the RuntimeError raised when the scan finds none.
find_free_port(free, rp) ==
    IF rp /= NoPort /\ rp >= PORT_RANGE_START /\ rp <= PORT_RANGE_END
       /\ is_port_available(rp, free)
    THEN rp
    ELSE LET scan == {p \in free :
                        /\ PORT_RANGE_START <= p
                        /\ p < PORT_RANGE_END
                        /\ is_port_available(p, free)}
         IN  IF scan = {} THEN NoPort ELSE Min(scan)

----------------------------------------------------------------------------
(* Kill *)

\* Mutant of kill_user_containers: the loop ends at the first container
\* whose kill() or remove() raises.
kill_until_first_failure(cs, avail, reach, u, KF, RF) ==
    IF ~avail
    THEN [cs |-> cs, res |-> Result("kill", u)]
    ELSE IF ~reach
    THEN [cs |-> cs,
          res |-> [Result("kill", u) EXCEPT !.success = FALSE]]
    ELSE LET all  == ForceRemoveEach(cs, OfUser(cs, u), KF, RF)
             upTo == IF all.errors = {} THEN OfUser(cs, u)
                     ELSE {c \in OfUser(cs, u) : c <= Min(all.errors)}
             r    == ForceRemoveEach(cs, upTo, KF, RF)
         IN  [cs  |-> r.cs,
              res |-> [Result("kill", u) EXCEPT
                          !.success = (Cardinality(r.errors) = 0),
                          !.removed = r.removed,
                          !.count = Cardinality(r.removed),
                          !.errors = r.errors]]

kill_user_containers(cs, avail, reach, u, KF, RF) ==
    IF ~avail
    THEN [cs |-> cs, res |-> Result("kill", u)]
    ELSE IF ~reach
    THEN [cs |-> cs,
          res |-> [Result("kill", u) EXCEPT !.success = FALSE]]
    ELSE LET r == ForceRemoveEach(cs, OfUser(cs, u), KF, RF)
         IN  [cs  |-> r.cs,
              res |-> [Result("kill", u) EXCEPT
                          !.success = (Cardinality(r.errors) = 0),
                          !.removed = r.removed,
                          !.count = Cardinality(r.removed),
                          !.errors = r.errors]]

----------------------------------------------------------------------------
(* Status *)

get_user_active_lab(cs, avail, reach, u) ==
    IF ~avail \/ ~reach
    THEN Result("status", u)
    ELSE LET found == OfUser(cs, u) \cap Running(cs)
         IN  IF found = {}
             THEN Result("status", u)
             ELSE LET c == Max(found)
                  IN  [Result("status", u) EXCEPT !.container_id = c,
                                                  !.expires_at = cs[c].expires_at]

----------------------------------------------------------------------------
(* Sweeps *)

Expired(cs, t) ==
    {c \in DOMAIN cs : cs[c].expires_at /= NoLabel /\ t > cs[c].expires_at}

Stale(cs, t, max_age) ==
    {c \in DOMAIN cs : cs[c].created_at /= NoLabel
                        /\ t - cs[c].created_at > max_age}

\* Mutant of cleanup_expired_containers: the comparison is now >= expires_at.
cleanup_expired_inclusive(cs, avail, reach, t, KF, RF) ==
    IF ~avail \/ ~reach
    THEN [cs |-> cs, res |-> [Result("sweep_expired", NoId) EXCEPT
                                 !.success = avail => reach, !.pre = cs]]
    ELSE LET due == {c \in DOMAIN cs : cs[c].expires_at /= NoLabel
                                        /\ t >= cs[c].expires_at}
             r   == ForceRemoveEach(cs, due, KF, RF)
         IN  [cs  |-> r.cs,
              res |-> [Result("sweep_expired", NoId) EXCEPT
                          !.removed = r.removed,
                          !.count = Cardinality(r.removed),
                          !.errors = r.errors,
                          !.pre = cs]]

cleanup_expired_containers(cs, avail, reach, t, KF, RF) ==
    IF ~avail
    THEN [cs |-> cs, res |-> [Result("sweep_expired", NoId) EXCEPT !.pre = cs]]
    ELSE IF ~reach
    THEN [cs |-> cs,
          res |-> [Result("sweep_expired", NoId) EXCEPT !.success = FALSE,
                                                        !.pre = cs]]
    ELSE LET r == ForceRemoveEach(cs, Expired(cs, t), KF, RF)
         IN  [cs  |-> r.cs,
              res |-> [Result("sweep_expired", NoId) EXCEPT
                          !.removed = r.removed,
                          !.count = Cardinality(r.removed),
                          !.errors = r.errors,
                          !.pre = cs]]

\* Mutant of cleanup_stale_containers: the sweep passes over a container
\* whose declared expiry has not passed or is absent.
cleanup_stale_if_expired(cs, avail, reach, t, max_age, KF, RF) ==
    IF ~avail \/ ~reach
    THEN [cs |-> cs, res |-> [Result("sweep_stale", NoId) EXCEPT
                                 !.success = avail => reach, !.pre = cs]]
    ELSE LET r == ForceRemoveEach(cs, Stale(cs, t, max_age) \cap Expired(cs, t),
                                  KF, RF)
         IN  [cs  |-> r.cs,
              res |-> [Result("sweep_stale", NoId) EXCEPT
                          !.removed = r.removed,
                          !.count = Cardinality(r.removed),
                          !.errors = r.errors,
                          !.pre = cs]]

cleanup_stale_containers(cs, avail, reach, t, max_age, KF, RF) ==
    IF ~avail
    THEN [cs |-> cs, res |-> [Result("sweep_stale", NoId) EXCEPT !.pre = cs]]
    ELSE IF ~reach
    THEN [cs |-> cs,
          res |-> [Result("sweep_stale", NoId) EXCEPT !.success = FALSE,
                                                      !.pre = cs]]
    ELSE LET r == ForceRemoveEach(cs, Stale(cs, t, max_age), KF, RF)
         IN  [cs  |-> r.cs,
              res |-> [Result("sweep_stale", NoId) EXCEPT
                          !.removed = r.removed,
                          !.count = Cardinality(r.removed),
                          !.errors = r.errors,
                          !.pre = cs]]

----------------------------------------------------------------------------
(* Extend *)

\* The minutes a caller asks for.
ExtraMinutes == {additional_minutes, MAX_TIMEOUT}

\* Mutant of extend_lab_timeout: the new expiry is written to the
\* container's expires_at label.
extend_and_relabel(cs, avail, reach, u, m) ==
    LET lab == get_user_active_lab(cs, avail, reach, u)
    IN  IF ~avail \/ lab.container_id = NoId
        THEN [cs |-> cs, res |-> [Result("extend", u) EXCEPT !.success = FALSE]]
        ELSE [cs  |-> [cs EXCEPT ![lab.container_id].expires_at =
                                     lab.expires_at + m],
              res |-> [Result("extend", u) EXCEPT
                          !.container_id = lab.container_id,
                          !.expires_at = lab.expires_at,
                          !.new_expires_at = lab.expires_at + m]]

\* In the result, container_id and expires_at are what get_user_active_lab
\* gave (the instance extended and its current_expires); new_expires_at is
\* the value returned to the caller.  The runtime is only read.
extend_lab_timeout(cs, avail, reach, u, m) ==
    LET lab == get_user_active_lab(cs, avail, reach, u)
    IN  IF ~avail \/ lab.container_id = NoId
        THEN [cs |-> cs, res |-> [Result("extend", u) EXCEPT !.success = FALSE]]
        ELSE [cs  |-> cs,
              res |-> [Result("extend", u) EXCEPT
                          !.container_id = lab.container_id,
                          !.expires_at = lab.expires_at,
                          !.new_expires_at = lab.expires_at + m]]

----------------------------------------------------------------------------
(* Spawn *)

\* _try_connect_docker: ping, and on success set the flag.  It starts no
\* cleanup thread.
try_connect_docker(reach) == reach

simulate_spawn(u, t, sp) ==
    [Result("spawn", u) EXCEPT !.simulated = TRUE,
                                !.port = sp,
                                !.expires_at = t + 120]

\* The host's ports as one call of _find_free_port meets them: no port
\* free; only the last port of the range free and missed, or hit, by the
\* random probes; every port free and the probes failing, or hitting one.
PortCases ==
    {[free |-> {}, rp |-> NoPort],
     [free |-> {PORT_RANGE_END}, rp |-> NoPort],
     [free |-> {PORT_RANGE_END}, rp |-> PORT_RANGE_END],
     [free |-> ProbePorts, rp |-> NoPort],
     [free |-> ProbePorts, rp |-> PORT_RANGE_END - 1]}

\* What containers.run and the status check two seconds later give.
RunOutcomes == {"running", "exited", "api_error", "image_not_found"}

\* A port case with a run outcome.  The outcome is left at "running" where
\* no port is found (run is not reached), and the port case at the first
\* one that finds a port where the run fails (the port is not returned).
PortRuns ==
    {pr \in [ports : PortCases, run : RunOutcomes] :
        \/ pr.run = "running"
        \/ pr.ports = [free |-> ProbePorts, rp |-> NoPort]}

\* What one call of spawn meets, per recursion level: KF, RF: the containers
\* whose kill(), remove() raises in the kill step (remove is not reached
\* where kill raised); ports, run: see PortRuns.
SpawnInputs(cs, u) ==
    {[KF |-> kf, RF |-> rf, ports |-> pr.ports, run |-> pr.run] :
        kf \in SUBSET (OfUser(cs, u) \cap Running(cs)),
        rf \in SUBSET OfUser(cs, u),
        pr \in PortRuns}

\* The recursive call is reached where the image is not found and is not
\* the fallback image; its kill step meets what the first one left.
SecondInputs(cs, avail, reach, u, img, in1) ==
    IF /\ avail \/ reach
       /\ reach
       /\ in1.run = "image_not_found"
       /\ img /= fallback_image
    THEN SpawnInputs(ForceRemoveEach(cs, OfUser(cs, u), in1.KF, in1.RF).cs, u)
    ELSE {in1}

\* Mutant of RetriesWithFallback: the handler never retries.
NeverRetries(img) == FALSE

\* The ImageNotFound handler retries with the fallback image unless the
\* image that was not found is the fallback image itself.
RetriesWithFallback(img) == img /= fallback_image

SpawnError(u, code) ==
    [Result("spawn", u) EXCEPT !.success = FALSE, !.error_code = code]

NewContainer(u, t, T, status) ==
    [user_id |-> u, created_at |-> t, expires_at |-> t + T,
     status |-> status]

RECURSIVE spawn_lab_container(_, _, _, _, _, _, _, _, _, _)
spawn_lab_container(u, img, T, cs, avail, reach, nid, t, sp, ins) ==
    LET in     == Head(ins)
        avail1 == avail \/ try_connect_docker(reach)
    IN
    IF ~avail1
    THEN [cs |-> cs, avail |-> avail1, nid |-> nid,
          res |-> [simulate_spawn(u, t, sp) EXCEPT !.depth = 1]]
    ELSE
    LET k    == kill_user_containers(cs, avail1, reach, u, in.KF, in.RF)
        port == find_free_port(in.ports.free, in.ports.rp)
        out(cs2, nid2, res) ==
            [cs |-> cs2, avail |-> avail1, nid |-> nid2, res |-> res]
        err(code, tried) ==
            [SpawnError(u, code) EXCEPT !.launches = tried, !.depth = 1]
    IN
    IF port = NoPort
    THEN out(k.cs, nid, err("RUNTIME_ERROR", <<>>))
    ELSE IF ~reach
    THEN out(k.cs, nid, err("UNKNOWN_ERROR", <<img>>))
    ELSE IF in.run = "image_not_found"
    THEN IF ~RetriesWithFallback(img)
         THEN out(k.cs, nid,
                  [err("DEFAULT_IMAGE_MISSING", <<img>>) EXCEPT
                      !.missing = {img}])
         ELSE LET r == spawn_lab_container(u, fallback_image, T, k.cs, avail1,
                                           reach, nid, t, sp, Tail(ins))
              IN  [r EXCEPT !.res.launches = <<img>> \o r.res.launches,
                            !.res.missing = {img} \cup r.res.missing,
                            !.res.depth = r.res.depth + 1]
    ELSE IF in.run = "api_error"
    THEN out(k.cs, nid, err("DOCKER_API_ERROR", <<img>>))
    ELSE LET cs2 == [c \in DOMAIN k.cs \cup {nid} |->
                        IF c = nid THEN NewContainer(u, t, T, in.run)
                        ELSE k.cs[c]]
         IN  IF in.run /= "running"
             THEN out(cs2, nid + 1,
                      [err("RUNTIME_ERROR", <<img>>) EXCEPT !.created = {nid}])
             ELSE out(cs2, nid + 1,
                      [Result("spawn", u) EXCEPT
                          !.container_id = nid, !.port = port,
                          !.expires_at = t + T, !.created = {nid},
                          !.launches = <<img>>, !.depth = 1])

----------------------------------------------------------------------------
(* The parts a specification leaves out stay at these values. *)

NoAlloc == [called |-> FALSE, rp |-> NoPort, port |-> NoPort]

NoAllocator == free_ports = {} /\ alloc = NoAlloc

NoVMManager ==
    docker_cli = FALSE /\ active_instances = <<>> /\ instance_seq = 0

NoLabManager == lab_client = FALSE /\ active_labs = <<>>

Idle == [pc |-> "idle", user_id |-> NoId, todo |-> {}, removed |-> {},
         errors |-> {}, success |-> TRUE]

Procs == 1..MaxProc

\* A spawn_lab_container call before it starts.  The fields are the call's
\* arguments and locals (user_id, timeout_minutes, host_port, the created_at
\* and expires_at labels, the container) and its result (success,
\* error_code, result_expires_at); launches counts the calls of
\* containers.run, bind_failed tells that run found the host port taken,
\* and overlapped that the call's kill step ran after the kill step and
\* before the run of another call for the same owner.
NoSpawn ==
    [pc |-> "idle", user_id |-> NoId, timeout_minutes |-> 0,
     host_port |-> NoPort, created_at |-> NoLabel, expires_at |-> NoLabel,
     container_id |-> NoId, success |-> FALSE, error_code |-> "",
     result_expires_at |-> NoLabel, launches |-> 0, bind_failed |-> FALSE,
     overlapped |-> FALSE]

NoSteps ==
    killer = Idle /\ sweeper = Idle /\ spawners = [p \in Procs |-> NoSpawn]

NoDockerManager ==
    /\ reachable = TRUE
    /\ docker_available = TRUE
    /\ cleanup_threads = 0
    /\ containers = <<>>
    /\ nextId = 1
    /\ foreign = 0
    /\ now = 0
    /\ last = NoCall

----------------------------------------------------------------------------
(* The manager after __init__: the flag is the answer of the constructor's  *)
(* ping, and the cleanup thread is started only when that ping succeeded.   *)

Init ==
    /\ reachable \in BOOLEAN
    /\ docker_available = reachable
    /\ cleanup_threads = IF reachable THEN 1 ELSE 0
    /\ containers = <<>>
    /\ nextId = 1
    /\ foreign = 0
    /\ now = 0
    /\ last = NoCall
    /\ NoAllocator /\ NoVMManager /\ NoLabManager /\ NoSteps

----------------------------------------------------------------------------
(* Calls of the manager *)

SpawnCall ==
    /\ nextId <= MaxId
    /\ \E u \in Owners, img \in Images, T \in Timeouts :
          \E in1 \in SpawnInputs(containers, u) :
          \E in2 \in SecondInputs(containers, docker_available, reachable,
                                   u, img, in1),
             sp \in IF ~docker_available /\ ~reachable
                    THEN ProbePorts ELSE {NoPort} :
             LET r == spawn_lab_container(u, img, T, containers,
                                          docker_available, reachable, nextId,
                                          now, sp, <<in1, in2>>)
             IN  /\ containers' = r.cs
                 /\ docker_available' = r.avail
                 /\ nextId' = r.nid
                 /\ last' = r.res
    /\ UNCHANGED <<reachable, cleanup_threads, foreign, now,
                   otherVars>>

KillCall ==
    /\ \E u \in Owners :
          \E KF \in SUBSET OfUser(containers, u),
             RF \in SUBSET OfUser(containers, u) :
             LET r == kill_user_containers(containers, docker_available,
                                           reachable, u, KF, RF)
             IN  /\ containers' = r.cs
                 /\ last' = r.res
    /\ UNCHANGED <<reachable, docker_available, cleanup_threads, nextId,
                   foreign, now,
                   otherVars>>

StatusCall ==
    /\ \E u \in Owners :
          last' = get_user_active_lab(containers, docker_available,
                                      reachable, u)
    /\ UNCHANGED <<reachable, docker_available, cleanup_threads, containers,
                   nextId, foreign, now,
                   otherVars>>

ExtendCall ==
    /\ \E u \in Owners, m \in ExtraMinutes :
          LET r == extend_lab_timeout(containers, docker_available,
                                      reachable, u, m)
          IN  /\ containers' = r.cs
              /\ last' = r.res
    /\ UNCHANGED <<reachable, docker_available, cleanup_threads, nextId,
                   foreign, now,
                   otherVars>>

\* POST /labs/cleanup of api_routes.py: the expiry sweep, on demand.
SweepExpiredCall ==
    /\ \E KF \in SUBSET Expired(containers, now),
          RF \in SUBSET Expired(containers, now) :
          LET r == cleanup_expired_containers(containers, docker_available,
                                              reachable, now, KF, RF)
          IN  /\ containers' = r.cs
              /\ last' = r.res
    /\ UNCHANGED <<reachable, docker_available, cleanup_threads, nextId,
                   foreign, now,
                   otherVars>>

\* One iteration of run_cleanup, the loop of the background thread.
ReaperStep(KF, RF) ==
    /\ cleanup_threads > 0
    /\ docker_available
    /\ LET r == cleanup_stale_containers(containers, docker_available,
                                         reachable, now, max_age_minutes,
                                         KF, RF)
       IN  /\ containers' = r.cs
           /\ last' = r.res
    /\ UNCHANGED <<reachable, docker_available, cleanup_threads, nextId,
                   foreign, now,
                   otherVars>>

ReaperTick ==
    \E KF \in SUBSET Stale(containers, now, max_age_minutes),
       RF \in SUBSET Stale(containers, now, max_age_minutes) :
       ReaperStep(KF, RF)

----------------------------------------------------------------------------
(* The environment *)

Tick ==
    /\ now + TickMinutes <= MaxTime
    /\ now' = now + TickMinutes
    /\ last' = NoCall
    /\ UNCHANGED <<reachable, docker_available, cleanup_threads, containers,
                   nextId, foreign,
                   otherVars>>

DockerDown ==
    /\ reachable
    /\ reachable' = FALSE
    /\ last' = NoCall
    /\ UNCHANGED <<docker_available, cleanup_threads, containers, nextId,
                   foreign, now,
                   otherVars>>

DockerUp ==
    /\ ~reachable
    /\ reachable' = TRUE
    /\ last' = NoCall
    /\ UNCHANGED <<docker_available, cleanup_threads, containers, nextId,
                   foreign, now,
                   otherVars>>

\* A container of another tool that carries the created_at label and no
\* expires_at or user_id label: what the two sweeps' label filters tell apart.
ForeignRun ==
    /\ reachable
    /\ foreign < MaxForeign
    /\ nextId <= MaxId
    /\ containers' = [c \in DOMAIN containers \cup {nextId} |->
                         IF c = nextId
                         THEN [user_id |-> NoId, created_at |-> now,
                               expires_at |-> NoLabel, status |-> "running"]
                         ELSE containers[c]]
    /\ nextId' = nextId + 1
    /\ foreign' = foreign + 1
    /\ last' = NoCall
    /\ UNCHANGED <<reachable, docker_available, cleanup_threads, now,
                   otherVars>>

Next ==
    \/ SpawnCall
    \/ KillCall
    \/ StatusCall
    \/ ExtendCall
    \/ SweepExpiredCall
    \/ ReaperTick
    \/ Tick
    \/ DockerDown
    \/ DockerUp
    \/ ForeignRun

Spec == Init /\ [][Next]_vars

\* The manager left to itself: callers spawn, and nobody calls Kill or the
\* on-demand sweep.  Time advances (WF on Tick) and the cleanup thread, where
\* one was started, keeps running its loop, with kill and remove succeeding
\* (WF on ReaperStep({}, {})).
LiveNext ==
    \/ SpawnCall
    \/ ReaperTick
    \/ Tick
    \/ DockerDown
    \/ DockerUp

FairSpec ==
    /\ Init
    /\ [][LiveNext]_vars
    /\ WF_vars(Tick)
    /\ WF_vars(ReaperStep({}, {}))

----------------------------------------------------------------------------
(* The background thread between two ticks of TickMinutes: callers spawn,  *)
(* the thread runs its loop, and time advances in steps of ShortTimeout.    *)

ShortTick ==
    /\ now + ShortTimeout <= MaxTime
    /\ now' = now + ShortTimeout
    /\ last' = NoCall
    /\ UNCHANGED <<reachable, docker_available, cleanup_threads, containers,
                   nextId, foreign,
                   otherVars>>

ReaperNext ==
    \/ SpawnCall
    \/ ReaperTick
    \/ ShortTick
    \/ DockerDown
    \/ DockerUp

ReaperSpec == Init /\ [][ReaperNext]_vars

----------------------------------------------------------------------------
(* VMManager (src/vm_manager.py): instances are tracked in the dict         *)
(* active_instances; the runtime is the docker command line, whose outcome  *)
(* is an input of the call.                                                  *)

Labs == 1..MaxLab

InstanceIds == 1..MaxInstance

VMTimeouts == {ShortTimeout, DEFAULT_TIMEOUT}

\* What `docker run` gives: a container id, a non-zero return code, or no
\* answer within the timeout.
DockerRunOutcomes == {"started", "failed", "timeout"}

VMResult(op, id) ==
    [op |-> op, instance_id |-> id, success |-> TRUE, status |-> "",
     demo_mode |-> FALSE, expiry_time |-> NoLabel, error |-> "", count |-> 0]

\* _get_user_instance: the first running, unexpired instance of the pair in
\* the dict's (insertion) order, NoId for None.
get_user_instance(ai, u, l, t) ==
    LET found == {i \in DOMAIN ai : /\ ai[i].user_id = u
                                    /\ ai[i].lab_id = l
                                    /\ ai[i].status = "running"
                                    /\ t <= ai[i].expiry_time}
    IN  IF found = {} THEN NoId ELSE Min(found)

spawn_instance(ai, cli, seq, l, u, T, t, run) ==
    LET existing == get_user_instance(ai, u, l, t)
        id       == seq + 1
        instance == [lab_id |-> l, user_id |-> u, expiry_time |-> t + T,
                     status |-> "running", created_at |-> t,
                     demo_mode |-> ~cli]
        stored   == [i \in DOMAIN ai \cup {id} |->
                        IF i = id THEN instance ELSE ai[i]]
        started  == [VMResult("spawn_instance", id) EXCEPT
                        !.status = "running", !.expiry_time = t + T,
                        !.demo_mode = ~cli]
        failed(e) == [VMResult("spawn_instance", NoId) EXCEPT
                        !.success = FALSE, !.status = "error", !.error = e]
    IN  IF existing /= NoId
        THEN [ai |-> ai, seq |-> seq,
              res |-> [VMResult("spawn_instance", existing) EXCEPT
                          !.status = "running",
                          !.expiry_time = ai[existing].expiry_time]]
        ELSE IF ~cli
        THEN [ai |-> stored, seq |-> id, res |-> started]
        ELSE IF run = "failed"
        THEN [ai |-> ai, seq |-> seq,
              res |-> failed("Failed to start container")]
        ELSE IF run = "timeout"
        THEN [ai |-> ai, seq |-> seq,
              res |-> failed("Container startup timeout")]
        ELSE [ai |-> stored, seq |-> id, res |-> started]

extend_instance(ai, id, m) ==
    IF id \notin DOMAIN ai
    THEN [ai |-> ai, res |-> [VMResult("extend_instance", id) EXCEPT
                                 !.success = FALSE,
                                 !.error = "Instance not found"]]
    ELSE IF ai[id].status /= "running"
    THEN [ai |-> ai, res |-> [VMResult("extend_instance", id) EXCEPT
                                 !.success = FALSE,
                                 !.error = "Cannot extend instance"]]
    ELSE LET new_expiry == ai[id].expiry_time + m
             max_expiry == ai[id].created_at + MAX_TIMEOUT
             capped     == IF new_expiry > max_expiry THEN max_expiry
                           ELSE new_expiry
         IN  [ai  |-> [ai EXCEPT ![id].expiry_time = capped],
              res |-> [VMResult("extend_instance", id) EXCEPT
                          !.expiry_time = capped]]

terminate_instance(ai, id) ==
    IF id \notin DOMAIN ai
    THEN [ai |-> ai, res |-> [VMResult("terminate_instance", id) EXCEPT
                                 !.success = FALSE,
                                 !.error = "Instance not found"]]
    ELSE [ai  |-> [i \in DOMAIN ai \ {id} |-> ai[i]],
          res |-> [VMResult("terminate_instance", id) EXCEPT
                      !.status = "stopped"]]

get_instance_status(ai, id, t) ==
    IF id \notin DOMAIN ai
    THEN [ai |-> ai, res |-> [VMResult("get_instance_status", id) EXCEPT
                                 !.success = FALSE, !.status = "not_found",
                                 !.error = "Instance not found"]]
    ELSE IF t > ai[id].expiry_time
    THEN [ai  |-> [ai EXCEPT ![id].status = "expired"],
          res |-> [VMResult("get_instance_status", id) EXCEPT
                      !.status = "expired"]]
    ELSE [ai  |-> ai,
          res |-> [VMResult("get_instance_status", id) EXCEPT
                      !.status = ai[id].status,
                      !.expiry_time = ai[id].expiry_time,
                      !.demo_mode = ai[id].demo_mode]]

cleanup_expired(ai, t) ==
    LET expired == {i \in DOMAIN ai : t > ai[i].expiry_time}
    IN  [ai  |-> [i \in DOMAIN ai \ expired |-> ai[i]],
         res |-> [VMResult("cleanup_expired", NoId) EXCEPT
                     !.count = Cardinality(expired)]]

\* VMManager(): docker_available is whether `docker --version` ran.
VMInit ==
    /\ docker_cli \in BOOLEAN
    /\ active_instances = <<>>
    /\ instance_seq = 0
    /\ NoDockerManager /\ NoAllocator /\ NoLabManager /\ NoSteps

VMFrame ==
    UNCHANGED <<reachable, docker_available, cleanup_threads, containers,
                nextId, foreign, now, docker_cli, portVars, labVars, stepVars>>

VMSpawn ==
    /\ instance_seq < MaxInstance
    /\ \E l \in Labs, u \in Owners, T \in VMTimeouts,
          run \in IF docker_cli THEN DockerRunOutcomes ELSE {"started"} :
          LET r == spawn_instance(active_instances, docker_cli, instance_seq,
                                  l, u, T, now, run)
          IN  /\ active_instances' = r.ai
              /\ instance_seq' = r.seq
              /\ last' = r.res
    /\ VMFrame

VMExtend ==
    /\ \E id \in InstanceIds, m \in ExtraMinutes :
          /\ (id \in DOMAIN active_instances /\ m /= MAX_TIMEOUT)
                => active_instances[id].expiry_time + m <= MaxExpiry
          /\ LET r == extend_instance(active_instances, id, m)
             IN  /\ active_instances' = r.ai
                 /\ last' = r.res
    /\ UNCHANGED instance_seq
    /\ VMFrame

VMTerminate ==
    /\ \E id \in InstanceIds :
          LET r == terminate_instance(active_instances, id)
          IN  /\ active_instances' = r.ai
              /\ last' = r.res
    /\ UNCHANGED instance_seq
    /\ VMFrame

VMStatus ==
    /\ \E id \in InstanceIds :
          LET r == get_instance_status(active_instances, id, now)
          IN  /\ active_instances' = r.ai
              /\ last' = r.res
    /\ UNCHANGED instance_seq
    /\ VMFrame

VMCleanup ==
    /\ LET r == cleanup_expired(active_instances, now)
       IN  /\ active_instances' = r.ai
           /\ last' = r.res
    /\ UNCHANGED instance_seq
    /\ VMFrame

VMNext ==
    \/ VMSpawn
    \/ VMExtend
    \/ VMTerminate
    \/ VMStatus
    \/ VMCleanup
    \/ Tick

VMSpec == VMInit /\ [][VMNext]_vars

----------------------------------------------------------------------------
(* LabManager (src/lab_manager.py): labs are tracked per user in the dict   *)
(* active_labs, next to the containers of the runtime.                      *)

\* __init__ assigns self.active_labs inside the try block, after
\* docker.from_env(): the attribute exists only if the client was created.
HasActiveLabs(client) == client

LabResult(op, u) ==
    [op |-> op, user_id |-> u, success |-> TRUE, raised |-> FALSE,
     error |-> "", running |-> FALSE, expired |-> FALSE,
     container_id |-> NoId, expires_at |-> NoLabel, count |-> 0]

\* Reading or writing self.active_labs where it does not exist:
\* AttributeError leaves the method.
LabRaised(op, u) ==
    [LabResult(op, u) EXCEPT !.success = FALSE, !.raised = TRUE,
                             !.error = "AttributeError"]

Untrack(al, u) == [v \in DOMAIN al \ {u} |-> al[v]]

Track(al, u, info) == [v \in DOMAIN al \cup {u} |-> IF v = u THEN info ELSE al[v]]

\* What containers.run and container.reload give in start_lab.
LabRunOutcomes ==
    {"running", "exited", "image_not_found", "api_error", "reload_failed"}

\* What container.stop and container.remove give in stop_lab.
StopOutcomes == {"removed", "stop_failed", "remove_failed"}

simulate_lab_start(al, u, T, t) ==
    LET info == [container_id |-> NoId, expires_at |-> t + T,
                 simulated |-> TRUE]
    IN  [al  |-> Track(al, u, info),
         res |-> [LabResult("start_lab", u) EXCEPT !.expires_at = t + T]]

start_lab(al, client, cs, reach, nid, u, T, t, run) ==
    LET fail(e) == [al |-> al, cs |-> cs, nid |-> nid,
                    res |-> [LabResult("start_lab", u) EXCEPT
                                !.success = FALSE, !.error = e]]
        made(st) == [c \in DOMAIN cs \cup {nid} |->
                       IF c = nid
                       THEN [user_id |-> u, created_at |-> NoLabel,
                             expires_at |-> NoLabel, status |-> st]
                       ELSE cs[c]]
    IN  IF ~HasActiveLabs(client)
        THEN [al |-> al, cs |-> cs, nid |-> nid,
              res |-> LabRaised("start_lab", u)]
        ELSE IF u \in DOMAIN al
        THEN fail("You already have an active lab")
        ELSE IF ~client
        THEN LET r == simulate_lab_start(al, u, T, t)
             IN  [al |-> r.al, cs |-> cs, nid |-> nid, res |-> r.res]
        ELSE IF ~reach
        THEN fail("Failed to start lab")
        ELSE IF run = "image_not_found"
        THEN fail("Lab image not found")
        ELSE IF run = "api_error"
        THEN fail("Docker API error")
        ELSE IF run = "reload_failed"
        THEN [fail("Failed to start lab") EXCEPT
                 !.cs = made("running"), !.nid = nid + 1]
        ELSE [al  |-> Track(al, u, [container_id |-> nid,
                                    expires_at |-> t + T,
                                    simulated |-> FALSE]),
              cs  |-> made(run),
              nid |-> nid + 1,
              res |-> [LabResult("start_lab", u) EXCEPT
                          !.container_id = nid, !.expires_at = t + T]]

\* The tracking entry goes in every branch that finds one; the container
\* goes only if stop and remove both succeed.
stop_lab(al, client, cs, reach, u, out) ==
    IF ~HasActiveLabs(client)
    THEN [al |-> al, cs |-> cs, res |-> LabRaised("stop_lab", u)]
    ELSE IF u \notin DOMAIN al
    THEN [al |-> al, cs |-> cs,
          res |-> [LabResult("stop_lab", u) EXCEPT !.success = FALSE]]
    ELSE LET c    == al[u].container_id
             done == [LabResult("stop_lab", u) EXCEPT !.container_id = c]
         IN  IF al[u].simulated \/ ~client
             THEN [al |-> Untrack(al, u), cs |-> cs, res |-> done]
             ELSE IF ~reach \/ c \notin DOMAIN cs \/ out = "stop_failed"
             THEN [al |-> Untrack(al, u), cs |-> cs, res |-> done]
             ELSE IF out = "remove_failed"
             THEN [al  |-> Untrack(al, u),
                   cs  |-> [cs EXCEPT ![c].status = "exited"],
                   res |-> done]
             ELSE [al  |-> Untrack(al, u),
                   cs  |-> [d \in DOMAIN cs \ {c} |-> cs[d]],
                   res |-> done]

get_lab_status(al, client, cs, reach, u, t, out) ==
    IF ~HasActiveLabs(client)
    THEN [al |-> al, cs |-> cs, res |-> LabRaised("get_lab_status", u)]
    ELSE IF u \notin DOMAIN al
    THEN [al |-> al, cs |-> cs, res |-> LabResult("get_lab_status", u)]
    ELSE LET c == al[u].container_id
         IN  IF /\ ~al[u].simulated /\ client
                /\ (~reach \/ c \notin DOMAIN cs \/ cs[c].status /= "running")
             THEN [al |-> Untrack(al, u), cs |-> cs,
                   res |-> LabResult("get_lab_status", u)]
             ELSE IF t > al[u].expires_at
             THEN LET r == stop_lab(al, client, cs, reach, u, out)
                  IN  [al |-> r.al, cs |-> r.cs,
                       res |-> [LabResult("get_lab_status", u) EXCEPT
                                   !.expired = TRUE, !.container_id = c]]
             ELSE [al |-> al, cs |-> cs,
                   res |-> [LabResult("get_lab_status", u) EXCEPT
                               !.running = TRUE, !.container_id = c,
                               !.expires_at = al[u].expires_at]]

RECURSIVE StopEach(_, _, _, _, _, _)
StopEach(al, client, cs, reach, users, outs) ==
    IF users = {}
    THEN [al |-> al, cs |-> cs]
    ELSE LET u == Min(users)
             r == stop_lab(al, client, cs, reach, u, outs[u])
         IN  StopEach(r.al, client, r.cs, reach, users \ {u}, outs)

cleanup_expired_labs(al, client, cs, reach, t, outs) ==
    IF ~HasActiveLabs(client)
    THEN [al |-> al, cs |-> cs, res |-> LabRaised("cleanup_expired_labs", NoId)]
    ELSE LET expired_users == {u \in DOMAIN al : t > al[u].expires_at}
             r == StopEach(al, client, cs, reach, expired_users, outs)
         IN  [al |-> r.al, cs |-> r.cs,
              res |-> [LabResult("cleanup_expired_labs", NoId) EXCEPT
                          !.count = Cardinality(expired_users)]]

\* LabManager(): docker.from_env() raises where the runtime does not answer.
LabInit ==
    /\ reachable \in BOOLEAN
    /\ lab_client = reachable
    /\ active_labs = <<>>
    /\ docker_available = FALSE
    /\ cleanup_threads = 0
    /\ containers = <<>>
    /\ nextId = 1
    /\ foreign = 0
    /\ now = 0
    /\ last = NoCall
    /\ NoAllocator /\ NoVMManager /\ NoSteps

LabFrame ==
    UNCHANGED <<reachable, docker_available, cleanup_threads, foreign, now,
                lab_client, portVars, vmVars, stepVars>>

LabStart ==
    /\ nextId <= MaxId
    /\ \E u \in Owners, T \in VMTimeouts, run \in LabRunOutcomes :
          LET r == start_lab(active_labs, lab_client, containers, reachable,
                             nextId, u, T, now, run)
          IN  /\ active_labs' = r.al
              /\ containers' = r.cs
              /\ nextId' = r.nid
              /\ last' = r.res
    /\ LabFrame

LabStop ==
    /\ \E u \in Owners, out \in StopOutcomes :
          LET r == stop_lab(active_labs, lab_client, containers, reachable,
                            u, out)
          IN  /\ active_labs' = r.al
              /\ containers' = r.cs
              /\ last' = r.res
    /\ UNCHANGED nextId
    /\ LabFrame

LabStatus ==
    /\ \E u \in Owners, out \in StopOutcomes :
          LET r == get_lab_status(active_labs, lab_client, containers,
                                  reachable, u, now, out)
          IN  /\ active_labs' = r.al
              /\ containers' = r.cs
              /\ last' = r.res
    /\ UNCHANGED nextId
    /\ LabFrame

LabCleanup ==
    /\ \E outs \in [Owners -> StopOutcomes] :
          LET r == cleanup_expired_labs(active_labs, lab_client, containers,
                                        reachable, now, outs)
          IN  /\ active_labs' = r.al
              /\ containers' = r.cs
              /\ last' = r.res
    /\ UNCHANGED nextId
    /\ LabFrame

\* A lab container's process ends by itself.
ContainerExits ==
    /\ \E c \in Running(containers) :
          containers' = [containers EXCEPT ![c].status = "exited"]
    /\ last' = NoCall
    /\ UNCHANGED <<active_labs, nextId>>
    /\ LabFrame

LabNext ==
    \/ LabStart
    \/ LabStop
    \/ LabStatus
    \/ LabCleanup
    \/ ContainerExits
    \/ Tick
    \/ DockerDown
    \/ DockerUp

LabSpec == LabInit /\ [][LabNext]_vars

----------------------------------------------------------------------------
(* Kill and the expiry sweep taken step by step: each call lists the        *)
(* containers once and then makes one runtime call per step, so that the   *)
(* two calls interleave over the same runtime.  Every runtime call answers  *)
(* as the runtime's state at that step demands; none fails otherwise.       *)

\* What containers.list returned: each container with the status it had.
Snapshot(cs, S) ==
    {[id |-> c, status |-> cs[c].status, phase |-> "kill"] : c \in S}

\* The container the loop is at (the list is newest first).
Current(p) == CHOOSE e \in p.todo : \A f \in p.todo : f.id <= e.id

\* One runtime call of the loop body.  kill() is made only for a container
\* listed as running, and raises if the container is gone (404) or no
\* longer running (409); remove(force=True) raises if the container is gone.
\* An exception ends the iteration with an error entry.
LoopStep(p, cs) ==
    LET e     == Current(p)
        c     == e.id
        rest  == p.todo \ {e}
        raise == [p  |-> [p EXCEPT !.todo = rest, !.errors = @ \cup {c}],
                  cs |-> cs]
    IN  IF e.phase = "kill" /\ e.status = "running"
        THEN IF c \notin DOMAIN cs \/ cs[c].status /= "running"
             THEN raise
             ELSE [p  |-> [p EXCEPT !.todo =
                              rest \cup {[e EXCEPT !.phase = "remove"]}],
                   cs |-> [cs EXCEPT ![c].status = "exited"]]
        ELSE IF c \notin DOMAIN cs
             THEN raise
             ELSE [p  |-> [p EXCEPT !.todo = rest, !.removed = @ \cup {c}],
                   cs |-> [d \in DOMAIN cs \ {c} |-> cs[d]]]

\* Two containers that earlier Spawns left, past their expiry.
StepInit ==
    /\ containers \in [Ids -> [user_id : Owners, created_at : {0},
                               expires_at : {ShortTimeout},
                               status : {"running", "exited"}]]
    /\ now = TickMinutes
    /\ reachable = TRUE
    /\ docker_available = TRUE
    /\ cleanup_threads = 0
    /\ nextId = MaxId + 1
    /\ foreign = 0
    /\ last = NoCall
    /\ NoSteps
    /\ NoAllocator /\ NoVMManager /\ NoLabManager

StepFrame ==
    UNCHANGED <<reachable, docker_available, cleanup_threads, nextId, foreign,
                now, last, spawners, portVars, vmVars, labVars>>

KillList ==
    /\ killer.pc = "idle"
    /\ \E u \in Owners :
          killer' = [Idle EXCEPT !.pc = "loop", !.user_id = u,
                                 !.todo = Snapshot(containers,
                                                   OfUser(containers, u))]
    /\ UNCHANGED <<containers, sweeper>>
    /\ StepFrame

KillStep ==
    /\ killer.pc = "loop"
    /\ killer.todo /= {}
    /\ LET r == LoopStep(killer, containers)
       IN  killer' = r.p /\ containers' = r.cs
    /\ UNCHANGED sweeper
    /\ StepFrame

KillReturn ==
    /\ killer.pc = "loop"
    /\ killer.todo = {}
    /\ killer' = [killer EXCEPT !.pc = "done",
                                !.success = (Cardinality(killer.errors) = 0)]
    /\ UNCHANGED <<containers, sweeper>>
    /\ StepFrame

SweepList ==
    /\ sweeper.pc = "idle"
    /\ sweeper' = [Idle EXCEPT !.pc = "loop",
                               !.todo = Snapshot(containers,
                                                 Expired(containers, now))]
    /\ UNCHANGED <<containers, killer>>
    /\ StepFrame

SweepStep ==
    /\ sweeper.pc = "loop"
    /\ sweeper.todo /= {}
    /\ LET r == LoopStep(sweeper, containers)
       IN  sweeper' = r.p /\ containers' = r.cs
    /\ UNCHANGED killer
    /\ StepFrame

SweepReturn ==
    /\ sweeper.pc = "loop"
    /\ sweeper.todo = {}
    /\ sweeper' = [sweeper EXCEPT !.pc = "done"]
    /\ UNCHANGED <<containers, killer>>
    /\ StepFrame

StepNext ==
    \/ KillList
    \/ KillStep
    \/ KillReturn
    \/ SweepList
    \/ SweepStep
    \/ SweepReturn

StepSpec == StepInit /\ [][StepNext]_vars

----------------------------------------------------------------------------
(* Spawn taken step by step: spawn_lab_container calls of several request   *)
(* threads over one runtime and one host.  A call kills the owner's         *)
(* containers, finds a port and reads the clock for the created_at label,   *)
(* reads the clock for the expires_at label, runs the container, and after  *)
(* its sleep checks the container and reads the clock for the result.       *)
(* Timestamps are whole minutes; a minute can end between any two steps.    *)
(* The runtime answers throughout and every image exists.                   *)

\* The host ports followed; free_ports are those no other process holds.
RacePorts == {PORT_RANGE_START, PORT_RANGE_START + 1}

\* The ports published by the containers of the calls.
BoundPorts(sp, cs) ==
    {sp[q].host_port : q \in {r \in Procs : sp[r].container_id \in DOMAIN cs}}

\* The ports on which a bind succeeds now.
AvailablePorts(free, sp, cs) == free \ BoundPorts(sp, cs)

\* Another call for the owner has finished its kill step and has not yet
\* run its container.
BetweenKillAndRun(sp, p, u) ==
    \E q \in Procs \ {p} :
        sp[q].user_id = u /\ sp[q].pc \in {"port", "labels", "run"}

\* Mutant of run_container: the new container takes the place of the
\* owner's other containers.
run_container_replacing(cs, nid, s) ==
    [c \in (DOMAIN cs \ OfUser(cs, s.user_id)) \cup {nid} |->
        IF c = nid
        THEN [NewContainer(s.user_id, s.created_at, s.timeout_minutes,
                           "running") EXCEPT !.expires_at = s.expires_at]
        ELSE cs[c]]

\* containers.run: the runtime with the new container, which carries the
\* labels the call prepared.
run_container(cs, nid, s) ==
    [c \in DOMAIN cs \cup {nid} |->
        IF c = nid
        THEN [NewContainer(s.user_id, s.created_at, s.timeout_minutes,
                           "running") EXCEPT !.expires_at = s.expires_at]
        ELSE cs[c]]

SpawnFailed(s, code) ==
    [s EXCEPT !.pc = "done", !.success = FALSE, !.error_code = code]

RaceInit ==
    /\ reachable = TRUE
    /\ docker_available = TRUE
    /\ cleanup_threads = 1
    /\ containers = <<>>
    /\ nextId = 1
    /\ foreign = 0
    /\ now = 0
    /\ last = NoCall
    /\ free_ports \in (SUBSET RacePorts) \ {{}}
    /\ alloc = NoAlloc
    /\ NoSteps /\ NoVMManager /\ NoLabManager

RaceFrame ==
    UNCHANGED <<reachable, docker_available, cleanup_threads, foreign, last,
                killer, sweeper, portVars, vmVars, labVars>>

\* The availability check and step 1, the kill of the owner's containers.
SpawnBegin(p) ==
    /\ spawners[p].pc = "idle"
    /\ docker_available
    /\ \E u \in Owners, T \in Timeouts :
          LET k == kill_user_containers(containers, docker_available,
                                        reachable, u, {}, {})
          IN  /\ containers' = k.cs
              /\ spawners' = [spawners EXCEPT ![p] =
                    [NoSpawn EXCEPT !.pc = "port", !.user_id = u,
                                    !.timeout_minutes = T,
                                    !.overlapped =
                                        BetweenKillAndRun(spawners, p, u)]]
    /\ UNCHANGED <<nextId, now>>
    /\ RaceFrame

\* Step 2, _find_free_port, and the created_at label.
SpawnAllocate(p) ==
    /\ spawners[p].pc = "port"
    /\ \E rp \in RacePorts \cup {NoPort} :
          LET port == find_free_port(
                          AvailablePorts(free_ports, spawners, containers), rp)
          IN  spawners' = [spawners EXCEPT ![p] =
                  IF port = NoPort
                  THEN SpawnFailed(@, "RUNTIME_ERROR")
                  ELSE [@ EXCEPT !.pc = "labels", !.host_port = port,
                                 !.created_at = now]]
    /\ UNCHANGED <<containers, nextId, now>>
    /\ RaceFrame

\* The expires_at label, from a second reading of the clock.
SpawnLabel(p) ==
    /\ spawners[p].pc = "labels"
    /\ spawners' = [spawners EXCEPT ![p] =
          [@ EXCEPT !.pc = "run",
                    !.expires_at = now + spawners[p].timeout_minutes]]
    /\ UNCHANGED <<containers, nextId, now>>
    /\ RaceFrame

\* Step 5, containers.run: APIError if the host port has been bound since
\* it was probed.
SpawnRun(p) ==
    /\ spawners[p].pc = "run"
    /\ LET s == [spawners[p] EXCEPT !.launches = @ + 1]
       IN  IF s.host_port
                 \notin AvailablePorts(free_ports, spawners, containers)
           THEN /\ spawners' = [spawners EXCEPT ![p] =
                       [SpawnFailed(s, "DOCKER_API_ERROR") EXCEPT
                           !.bind_failed = TRUE]]
                /\ UNCHANGED <<containers, nextId>>
           ELSE /\ containers' = run_container(containers, nextId, s)
                /\ nextId' = nextId + 1
                /\ spawners' = [spawners EXCEPT ![p] =
                       [s EXCEPT !.pc = "sleep", !.container_id = nextId]]
    /\ UNCHANGED now
    /\ RaceFrame

\* Step 7 and the result: container.reload() raises NotFound, an APIError,
\* if the container is gone; the result's expires_at is computed from a
\* third reading of the clock.
SpawnReturn(p) ==
    /\ spawners[p].pc = "sleep"
    /\ LET s == spawners[p]
       IN  spawners' = [spawners EXCEPT ![p] =
              IF s.container_id \notin DOMAIN containers
              THEN SpawnFailed(s, "DOCKER_API_ERROR")
              ELSE IF containers[s.container_id].status /= "running"
              THEN SpawnFailed(s, "RUNTIME_ERROR")
              ELSE [s EXCEPT !.pc = "done", !.success = TRUE,
                             !.result_expires_at = now + s.timeout_minutes]]
    /\ UNCHANGED <<containers, nextId, now>>
    /\ RaceFrame

MinutePasses ==
    /\ now < MaxClock
    /\ now' = now + 1
    /\ UNCHANGED <<containers, nextId, spawners>>
    /\ RaceFrame

RaceNext ==
    \/ \E p \in Procs : SpawnBegin(p)
    \/ \E p \in Procs : SpawnAllocate(p)
    \/ \E p \in Procs : SpawnLabel(p)
    \/ \E p \in Procs : SpawnRun(p)
    \/ \E p \in Procs : SpawnReturn(p)
    \/ MinutePasses

RaceSpec == RaceInit /\ [][RaceNext]_vars

----------------------------------------------------------------------------
(* The port allocator taken alone: _find_free_port called on a host whose  *)
(* free ports change between calls.                                         *)

dockerVars == <<reachable, docker_available, cleanup_threads, containers,
                nextId, foreign, now, last>>

\* The ports followed: both ends of the range and their neighbours.
AllocPorts == ProbePorts \cup {PORT_RANGE_START + 1, PORT_RANGE_END - 2}

PortInit ==
    /\ free_ports \in SUBSET AllocPorts
    /\ alloc = NoAlloc
    /\ NoDockerManager /\ NoVMManager /\ NoLabManager /\ NoSteps

\* rp: the first free port among the 100 random draws, or a bound port or
\* NoPort when no draw hit a free port.
AllocateCall ==
    /\ \E rp \in AllocPorts \cup {NoPort} :
          alloc' = [called |-> TRUE, rp |-> rp,
                    port |-> find_free_port(free_ports, rp)]
    /\ UNCHANGED <<free_ports, dockerVars, vmVars, labVars, stepVars>>

PortBound ==
    /\ \E p \in free_ports : free_ports' = free_ports \ {p}
    /\ alloc' = NoAlloc
    /\ UNCHANGED <<dockerVars, vmVars, labVars, stepVars>>

PortReleased ==
    /\ \E p \in AllocPorts \ free_ports : free_ports' = free_ports \cup {p}
    /\ alloc' = NoAlloc
    /\ UNCHANGED <<dockerVars, vmVars, labVars, stepVars>>

PortNext ==
    \/ AllocateCall
    \/ PortBound
    \/ PortReleased

PortSpec == PortInit /\ [][PortNext]_vars

----------------------------------------------------------------------------
(* Properties.  A state with last.op = "spawn" (and so on) is the state in  *)
(* which that call has just returned; reachable has the value it had       *)
(* during the call.                                                         *)

RunningOf(u) == OfUser(containers, u) \cap Running(containers)

InPortRange(p) == PORT_RANGE_START <= p /\ p <= PORT_RANGE_END

\* C1: when a Spawn call returns with the runtime reachable, at most one
\* container tagged with the call's owner is in running state, whatever the
\* kill, port-allocation and run steps did.
C1_OneRunningPerOwner ==
    (last.op = "spawn" /\ reachable)
        => Cardinality(RunningOf(last.user_id)) <= 1

\* C5: Kill for an owner that has no instance returns killed_count = 0 and
\* success = true and leaves the runtime as it was (so a repeated call
\* meets the same state and gives the same result).
C5_KillNothingIsNoop ==
    [][(last'.op = "kill" /\ OfUser(containers, last'.user_id) = {})
          => /\ last'.success
             /\ last'.count = 0
             /\ last'.removed = {}
             /\ containers' = containers]_vars

\* C7: when two Spawn calls in a row for one owner both succeed with a real
\* container, the first call's container is gone once the second returns
\* and Status for the owner reports the second call's container id.
C7_SecondSpawnReplacesFirst ==
    [][(/\ last.op = "spawn" /\ last.success /\ ~last.simulated
        /\ last'.op = "spawn" /\ last'.success /\ ~last'.simulated
        /\ last'.user_id = last.user_id)
          => /\ last.container_id \notin DOMAIN containers'
             /\ get_user_active_lab(containers', docker_available',
                                     reachable', last'.user_id).container_id
                    = last'.container_id]_vars

\* C8: a Kill over an owner that has instances removes each instance whose
\* kill and remove succeed, whatever happens to the others (with the
\* runtime reachable, an instance is left only if its own kill or remove
\* failed): the returned ids are those of the instances removed,
\* killed_count is their number, success is true exactly when no instance
\* of the owner is left, and no other owner's container is touched.
C8_KillCollectsPartialFailures ==
    [][(last'.op = "kill" /\ OfUser(containers, last'.user_id) /= {})
          => LET u      == last'.user_id
                 before == OfUser(containers, u)
                 after  == OfUser(containers', u)
             IN  /\ after \subseteq before
                 /\ last'.removed = before \ after
                 /\ last'.count = Cardinality(before \ after)
                 /\ last'.success <=> (after = {})
                 /\ reachable => last'.errors = after
                 /\ \A c \in DOMAIN containers \ before :
                        c \in DOMAIN containers' /\ containers'[c] = containers[c]
                 /\ DOMAIN containers' \subseteq DOMAIN containers]_vars

\* C8 witness: a Kill has removed one instance and failed on another.
C8_Witness ==
    last.op = "kill" /\ last.removed /= {} /\ last.errors /= {} /\ ~last.success

\* C9: a Spawn that returns success = false leaves no container it created
\* in the runtime.
C9_FailedSpawnLeavesNothing ==
    (last.op = "spawn" /\ ~last.success)
        => last.created \cap DOMAIN containers = {}

\* C10: with the runtime unreachable, Spawn returns success with
\* simulated = true and a port of the configured range, and makes no call
\* that creates a container.
C10_UnreachableSpawnSimulates ==
    (last.op = "spawn" /\ ~reachable)
        => /\ last.success
           /\ last.simulated
           /\ InPortRange(last.port)
           /\ last.launches = <<>>
           /\ last.created = {}

\* C2: assuming that time advances and the runtime stays reachable, every
\* container created by Spawn is eventually removed from the runtime,
\* whether the runtime was reachable at construction or only later.  (Of
\* the model's bounded time, the instances old enough before MaxTime.)
C2_EveryInstanceEventuallyRemoved ==
    (<>[]reachable) =>
        \A c \in Ids :
            [](( /\ c \in DOMAIN containers
                 /\ containers[c].user_id /= NoId
                 /\ containers[c].created_at + max_age_minutes < MaxTime)
                  => <>(c \notin DOMAIN containers))

\* C6 as stated: a Spawn whose image is not found makes exactly one further
\* launch attempt, with the fallback image, returns DEFAULT_IMAGE_MISSING
\* when that is missing too, and never recurses deeper than 2.
C6_ExactlyOneFallbackAttempt ==
    (last.op = "spawn" /\ last.missing /= {})
        => /\ Len(last.launches) = 2
           /\ last.launches[2] = fallback_image
           /\ fallback_image \in last.missing
                 => last.error_code = "DEFAULT_IMAGE_MISSING"
           /\ last.depth <= 2

\* C6 amended: no Spawn makes more than two launch attempts or recurses
\* deeper than 2.  When an image other than the fallback image is not
\* found, the call recurses once and makes at most one further launch
\* attempt, with the fallback image: exactly one unless the retry finds no
\* free port (RUNTIME_ERROR).  When the fallback image itself was requested
\* and is not found there is no further attempt.  Whenever the fallback
\* image is not found the call returns DEFAULT_IMAGE_MISSING.
C6_BoundedFallback ==
    last.op = "spawn"
        => /\ last.depth <= 2
           /\ Len(last.launches) <= last.depth
           /\ (last.missing /= {} /\ last.launches[1] /= fallback_image)
                 => /\ last.depth = 2
                    /\ \/ /\ Len(last.launches) = 2
                          /\ last.launches[2] = fallback_image
                       \/ /\ Len(last.launches) = 1
                          /\ last.error_code = "RUNTIME_ERROR"
           /\ (last.missing /= {} /\ last.launches[1] = fallback_image)
                 => Len(last.launches) = 1 /\ last.depth = 1
           /\ fallback_image \in last.missing
                 => ~last.success /\ last.error_code = "DEFAULT_IMAGE_MISSING"
           /\ last.missing = {} => last.depth <= 1

\* C6 witness: the requested image and then the fallback image were missing.
C6_Witness ==
    /\ last.op = "spawn"
    /\ last.launches = <<LabImage, fallback_image>>
    /\ last.missing = Images
    /\ last.error_code = "DEFAULT_IMAGE_MISSING"
    /\ last.depth = 2

\* The instances a sweep at time `now` found expired: expires_at earlier than
\* now; and those it found not expired.
ExpiredBefore == {c \in DOMAIN last.pre : /\ last.pre[c].expires_at /= NoLabel
                                          /\ last.pre[c].expires_at < now}

NotExpiredBefore == {c \in DOMAIN last.pre : /\ last.pre[c].expires_at /= NoLabel
                                             /\ last.pre[c].expires_at >= now}

\* The instances a sweep at time `now` found older than the hard ceiling.
OldBefore == {c \in DOMAIN last.pre : /\ last.pre[c].created_at /= NoLabel
                                      /\ now - last.pre[c].created_at
                                            > max_age_minutes}

StatusActive(u) ==
    get_user_active_lab(containers, docker_available, reachable, u).container_id
        /= NoId

\* C3 as stated: one run of the expiry sweep with the runtime reachable
\* removes exactly the expired instances, returns their number as the
\* cleaned count, and every instance not expired remains and, if it was
\* running, is still reported active by Status for its owner.
C3_SweepRemovesExactlyExpired ==
    (last.op = "sweep_expired" /\ reachable)
        => /\ DOMAIN containers = DOMAIN last.pre \ ExpiredBefore
           /\ last.count = Cardinality(ExpiredBefore)
           /\ \A c \in NotExpiredBefore :
                 /\ c \in DOMAIN containers
                 /\ last.pre[c].status = "running"
                        => StatusActive(last.pre[c].user_id)

\* C3 amended: one run of the expiry sweep with the runtime reachable
\* removes only instances whose expires_at is earlier
\* than now, and each of them unless its kill or remove call fails (the
\* failure is collected in errors and the instance stays); the cleaned
\* count is the number of instances removed, whose ids are returned; every
\* other container is left as it was, so that an owner with a running
\* instance that has not expired is still reported active by Status.
C3_SweepExpiredCollectsFailures ==
    (last.op = "sweep_expired" /\ reachable)
        => LET gone == DOMAIN last.pre \ DOMAIN containers
           IN  /\ DOMAIN containers \subseteq DOMAIN last.pre
               /\ gone \subseteq ExpiredBefore
               /\ last.removed = gone
               /\ last.count = Cardinality(gone)
               /\ last.errors = ExpiredBefore \ gone
               /\ last.success
               /\ \A c \in DOMAIN last.pre \ ExpiredBefore :
                     containers[c] = last.pre[c]
               /\ \A c \in NotExpiredBefore :
                     last.pre[c].status = "running"
                        => StatusActive(last.pre[c].user_id)

\* C3 witness: a sweep has removed an expired instance and has left a
\* running instance that has not expired.
C3_Witness ==
    /\ last.op = "sweep_expired"
    /\ reachable
    /\ last.removed /= {}
    /\ \E c \in DOMAIN containers :
          /\ containers[c].expires_at >= now
          /\ containers[c].status = "running"

C13_UnreachableAlwaysSimulates ==
    (last.op = "spawn" /\ ~reachable)
        => (last.simulated /\ last.error_code = "")

\* C14: the port returned by every successful real Spawn satisfies
\* 20000 <= port < 30000.
C14_PortBelowRangeEnd ==
    (last.op = "spawn" /\ last.success /\ ~last.simulated)
        => (PORT_RANGE_START <= last.port /\ last.port < PORT_RANGE_END)

\* The error_code of a Spawn that found no free host port.
PortExhaustionCode ==
    spawn_lab_container(1, fallback_image, DEFAULT_TIMEOUT_MINUTES, <<>>,
                        TRUE, TRUE, 1, 0, NoPort,
                        <<[KF |-> {}, RF |-> {},
                           ports |-> [free |-> {}, rp |-> NoPort],
                           run |-> "running"]>>).res.error_code

\* C16: no other failure cause produces the error_code of port exhaustion;
\* in particular a Spawn whose container failed the running-state check
\* (the failed call created a container) does not return it.
C16_PortExhaustionCodeIsDistinct ==
    (last.op = "spawn" /\ ~last.success /\ last.created /= {})
        => last.error_code /= PortExhaustionCode

\* C19: Status never reports an instance as active at a time later than the
\* instance's expires_at, whether or not a sweep has run.
C19_StatusNeverActiveAfterExpiry ==
    (last.op = "status" /\ last.container_id /= NoId)
        => ~(now > last.expires_at)

\* C17: Extend leaves the instance's recorded expires_at unchanged (the
\* runtime is not touched at all): after a successful Extend, Status
\* reports the same instance with the original expires_at, and an expiry
\* sweep that follows removes the instance once now has passed the original
\* expires_at, whatever new_expires_at was returned.
C17_ExtendDoesNotPersist ==
    [][/\ last'.op = "extend"
          => /\ containers' = containers
             /\ last'.success
                  => LET st == get_user_active_lab(containers',
                                   docker_available', reachable', last'.user_id)
                     IN  /\ st.container_id = last'.container_id
                         /\ st.expires_at = last'.expires_at
                         /\ last'.expires_at
                               = containers[last'.container_id].expires_at
       /\ (/\ last.op = "extend" /\ last.success
           /\ last'.op = "sweep_expired" /\ reachable' /\ last'.errors = {}
           /\ now' > last.expires_at)
          => last.container_id \notin DOMAIN containers']_vars

\* C17 witness: Extend has succeeded on an instance that is already past
\* its recorded expires_at and has returned a new_expires_at in the future.
C17_Witness ==
    /\ last.op = "extend"
    /\ last.success
    /\ now > last.expires_at
    /\ last.new_expires_at >= now
    /\ containers[last.container_id].expires_at = last.expires_at

\* C18: the new expiry that Extend returns is never later than the
\* instance's created_at plus the maximum total lifetime.
C18_ExtendCappedAtMaxLifetime ==
    (last.op = "extend" /\ last.success)
        => last.new_expires_at
             <= containers[last.container_id].created_at + MAX_TIMEOUT

\* C15: whenever at least one port of the inclusive range 20000..30000 is
\* free, _find_free_port returns a port of that range that is free, for
\* every outcome of the random probes; it fails (NoPort) only when every
\* port of the inclusive range is bound.
C15_AllocateFindsAnyFreePort ==
    alloc.called
        => LET open == {p \in free_ports : InPortRange(p)}
           IN  /\ open /= {} => alloc.port \in open
               /\ alloc.port = NoPort => open = {}

\* C11: a simulated Spawn leaves every piece of tracked instance state
\* unchanged: no entry is added to any instance map, so that Status and a
\* later Spawn behave as if the simulated call had not happened.  Here for
\* VMManager, whose simulated spawn is the demo-mode spawn_instance.
C11_SimulatedSpawnTracksNothing ==
    [][(last'.op = "spawn_instance" /\ last'.success /\ last'.demo_mode)
          => active_instances' = active_instances]_vars

\* C12: Spawn, Kill and Status never raise to their caller: every failure
\* of a runtime call, and the runtime being unreachable at construction or
\* at the call, ends in a returned result.  Here for LabManager's start_lab,
\* stop_lab and get_lab_status.
C12_CallsNeverRaise ==
    last.op \in {"start_lab", "stop_lab", "get_lab_status"} => ~last.raised

\* C20: when a Kill and an expiry sweep run concurrently over the same
\* instances and one finds an instance already removed by the other, that
\* counts as success: a returned Kill has no error entry for an instance
\* the sweep removed, and has success = true if the sweep removed all it
\* failed on; a returned sweep has no error for an instance Kill removed.
C20_RemovedByTheOtherIsSuccess ==
    /\ killer.pc = "done"
          => /\ killer.errors \cap sweeper.removed = {}
             /\ killer.errors \subseteq sweeper.removed => killer.success
    /\ sweeper.pc = "done"
          => sweeper.errors \cap killer.removed = {}

\* C23: the background Reaper runs both sweeps: after one iteration of its
\* loop with the runtime reachable and no kill or remove failing, no
\* instance whose expires_at has passed is left, without anyone calling the
\* expiry sweep on demand.
C23_ReaperRemovesExpired ==
    (last.op = "sweep_stale" /\ reachable /\ last.errors = {})
        => Expired(containers, now) = {}

\* C26: whenever real containers can be created (_docker_available is true),
\* the background cleanup loop has been started, and exactly once, whether
\* availability came from the constructor or from a later reconnect.
C26_CleanupStartedWhenAvailable ==
    docker_available => cleanup_threads = 1

\* C27: after LabManager.stop_lab returns True for a user whose lab was a
\* real container, that container is no longer running in the runtime.
C27_StoppedLabIsNotRunning ==
    (last.op = "stop_lab" /\ last.success /\ last.container_id /= NoId)
        => last.container_id \notin Running(containers)

\* C28: LabManager.start_lab does not reject a user with "You already have
\* an active lab" when the user's only tracked lab has passed its
\* expires_at, whatever calls came before.
C28_ExpiredLabDoesNotBlockStart ==
    [][(/\ last'.op = "start_lab"
        /\ last'.user_id \in DOMAIN active_labs
        /\ now > active_labs[last'.user_id].expires_at)
          => last'.error /= "You already have an active lab"]_vars

\* C29: VMManager.extend_instance fails, and changes nothing, for every
\* instance whose expiry_time is already in the past, whether or not
\* get_instance_status has marked it expired.
C29_ExtendFailsOnceExpired ==
    [][(/\ last'.op = "extend_instance"
        /\ last'.instance_id \in DOMAIN active_instances
        /\ now > active_instances[last'.instance_id].expiry_time)
          => /\ ~last'.success
             /\ active_instances' = active_instances]_vars

\* The running, unexpired instances of a (user, lab) pair.
LiveInstances(ai, u, l, t) ==
    {i \in DOMAIN ai : /\ ai[i].user_id = u
                      /\ ai[i].lab_id = l
                      /\ ai[i].status = "running"
                      /\ t <= ai[i].expiry_time}

\* C30: VMManager.spawn_instance adds an entry to active_instances only for
\* a (user, lab) pair that has no running, unexpired instance, and
\* active_instances never holds two running, unexpired instances of one
\* pair.
C30_OneLiveInstancePerPair ==
    [][/\ (last'.op = "spawn_instance"
           /\ DOMAIN active_instances' /= DOMAIN active_instances)
          => \A n \in DOMAIN active_instances' \ DOMAIN active_instances :
                LiveInstances(active_instances,
                              active_instances'[n].user_id,
                              active_instances'[n].lab_id, now) = {}
       /\ \A u \in Owners, l \in Labs :
             Cardinality(LiveInstances(active_instances', u, l, now')) <= 1]_vars

\* C25: an instance spawned with the default timeout is never removed by
\* the background Reaper before the expires_at that Spawn returned for it
\* (created_at + DEFAULT_TIMEOUT_MINUTES).
C25_ReaperSparesDefaultTimeout ==
    last.op = "sweep_stale"
        => \A c \in last.removed :
              last.pre[c].expires_at
                    = last.pre[c].created_at + DEFAULT_TIMEOUT_MINUTES
                 => now >= last.pre[c].expires_at

\* Two calls for one owner have both returned success, and one of them
\* made its kill step after the other's kill step and before the other's
\* run; no further call for the owner has started.
OverlappingSpawnsReturned(p, q) ==
    /\ p /= q
    /\ spawners[p].pc = "done" /\ spawners[p].success
    /\ spawners[q].pc = "done" /\ spawners[q].success
    /\ spawners[p].user_id = spawners[q].user_id
    /\ spawners[p].overlapped
    /\ \A r \in Procs \ {p, q} : spawners[r].user_id /= spawners[p].user_id

\* C21: when two overlapping Spawn calls for one owner have both finished
\* their kill step before either created its container and both have
\* returned success, the two containers they created are both running,
\* tagged with that owner; nothing in Spawn or Kill keeps the calls from
\* interleaving so (the witness is reached).
C21_OverlappingSpawnsLeaveTwo ==
    \A p, q \in Procs :
        OverlappingSpawnsReturned(p, q)
            => /\ spawners[p].container_id /= spawners[q].container_id
               /\ {spawners[p].container_id, spawners[q].container_id}
                     \subseteq RunningOf(spawners[p].user_id)

\* C21 witness: both calls have returned success after such an interleaving
\* and two containers of the owner are running.
C21_Witness ==
    \E p, q \in Procs :
        /\ OverlappingSpawnsReturned(p, q)
        /\ Cardinality(RunningOf(spawners[p].user_id)) = 2

\* C22: a Spawn whose launch failed because the host port was taken between
\* the probe and the launch allocates a fresh port and launches again: it
\* does not return after a single launch.
C22_BindFailureIsRetried ==
    \A p \in Procs :
        (spawners[p].pc = "done" /\ spawners[p].bind_failed)
            => spawners[p].launches >= 2

\* C24: for every successful real Spawn with timeout T, the recorded
\* expires_at is the recorded created_at plus T, and the expires_at
\* returned to the caller is the recorded expires_at, even though time
\* advances during the call.
C24_ExpiryIsCreatedPlusTimeout ==
    \A p \in Procs :
        (spawners[p].pc = "done" /\ spawners[p].success)
            => /\ spawners[p].expires_at
                    = spawners[p].created_at + spawners[p].timeout_minutes
               /\ spawners[p].result_expires_at = spawners[p].expires_at

============================================================================
